---------------------------- MODULE Spec2Model ----------------------------
(***************************************************************************)
(* A model of mdload.py: the command line front end (main), the header     *)
(* parser (parse_headers), the media classifier (has_video), the option    *)
(* builder (build_base_opts) and the batch loop (download_entries).        *)
(*                                                                         *)
(* Python values are modelled as follows.                                  *)
(*   - An optional value (one that may be None, or a dict key that may be  *)
(*     missing and is read with .get) is a sequence of length 0 or 1:      *)
(*     None is << >>, the value x is << x >>.                              *)
(*   - A list is a sequence; a dict with a fixed set of keys is a record;  *)
(*     a dict whose key set matters (the yt-dlp options) is a function     *)
(*     from the keys that are present.                                     *)
(*   - The external collaborator (YoutubeDL) is the environment: every     *)
(*     call either raises or returns, chosen nondeterministically.         *)
(***************************************************************************)
EXTENDS Integers, Sequences, FiniteSets, TLC

VARIABLES
    pc,            \* position of the program
    args,          \* argparse namespace of main (line 213)
    site,          \* environment: what the top-level URL resolves to
    req,           \* the parameters of download_entries (line 100)
    headers,       \* main: parsed header map (line 220)
    exit_status,   \* process exit status, None while running
    dirs,          \* environment: directories created by the program
    stdin,         \* environment: the lines read from standard input
    base_opts,     \* download_entries: options of the metadata queries
    initial_info,  \* download_entries: resolved top-level metadata
    entries,       \* download_entries: normalized entry list
    i,             \* download_entries: index of the entry being processed
    entry_url,     \* loop local (line 142)
    title,         \* loop local (line 143)
    is_video,      \* loop local (lines 155/158)
    opts,          \* loop local (line 161): options of the download
    calls,         \* history: calls made to the external collaborator
    out,           \* history: lines printed on stdout / stderr
    fn_in,         \* argument of a function applied on its own
    fn_out         \* result of a function applied on its own

vars == << pc, args, site, req, headers, exit_status, dirs, stdin, base_opts, initial_info,
           entries, i, entry_url, title, is_video, opts, calls, out,
           fn_in, fn_out >>

---------------------------------------------------------------------------
(* Python values *)

None == << >>

Some(x) == << x >>

\* Truthiness of an optional string: None and "" are falsy.
TruthyStr(o) == o # None /\ o[1] # ""

\* Truthiness of an optional integer: None and 0 are falsy.
TruthyInt(o) == o # None /\ o[1] # 0

\* Truthiness of an optional boolean: None and False are falsy.
TruthyBool(o) == o # None /\ o[1]

\* Truthiness of an optional list or dict: None and the empty one are falsy.
TruthySeq(o) == o # None /\ o[1] # << >>

\* Python's `a or b` on optional strings: a when truthy, else b.
OrStr(a, b) == IF TruthyStr(a) THEN a ELSE b

\* Python's `a or []` on an optional list.
OrEmpty(o) == IF TruthySeq(o) THEN o[1] ELSE << >>

\* All sequences over S of length at most n.
SeqUpTo(S, n) == UNION { [1..k -> S] : k \in 0..n }

\* Python's dict.update: the keys of e override those of d.
Update(d, e) == e @@ d

---------------------------------------------------------------------------
(* has_video, lines 49-62 *)

\* Largest number of format descriptors of a classified entry.
MaxFormats == 2

\* Values of a descriptor's 'vcodec': missing, the sentinel, a codec name.
VCodecs == { None, Some("none"), Some("avc1") }

FormatDescs == [ vcodec : VCodecs ]

\* Line 58: `vcodec and vcodec != 'none'`.
IsVideoFormat(f) == TruthyStr(f.vcodec) /\ f.vcodec[1] # "none"

\* Variant of has_video with a slip: only the first descriptor is examined.
has_video_first_only(info) ==
    LET formats == OrEmpty(info.formats)
    IN  IF formats # << >> /\ IsVideoFormat(formats[1])
        THEN TRUE
        ELSE TruthyBool(info.is_live) \/ TruthyInt(info.width)
                \/ TruthyInt(info.height)

\* Variant of has_video with a slip: a width or height that is present
\* counts, even when it is zero.
has_video_zero_counts(info) ==
    LET formats == OrEmpty(info.formats)
    IN  IF \E k \in 1..Len(formats) : IsVideoFormat(formats[k])
        THEN TRUE
        ELSE TruthyBool(info.is_live) \/ info.width # None \/ info.height # None

\* Variant of has_video with a slip: the height is not looked at.
has_video_no_height(info) ==
    LET formats == OrEmpty(info.formats)
    IN  IF \E k \in 1..Len(formats) : IsVideoFormat(formats[k])
        THEN TRUE
        ELSE TruthyBool(info.is_live) \/ TruthyInt(info.width)

\* Lines 55-62.
has_video(info) ==
    LET formats == OrEmpty(info.formats)
    IN  IF \E k \in 1..Len(formats) : IsVideoFormat(formats[k])
        THEN TRUE
        ELSE IF TruthyBool(info.is_live) \/ TruthyInt(info.width)
                    \/ TruthyInt(info.height)
             THEN TRUE
             ELSE FALSE

\* The metadata objects has_video is applied to on its own: every format
\* list of at most MaxFormats descriptors (or none), every live flag, and
\* widths and heights that are missing, zero or positive.
ClassifierInputs ==
    [ formats : { None } \cup { Some(fs) : fs \in SeqUpTo(FormatDescs, MaxFormats) },
      is_live : { None, Some(FALSE), Some(TRUE) },
      width   : { None, Some(0), Some(640) },
      height  : { None, Some(0), Some(360) } ]

---------------------------------------------------------------------------
(* parse_headers, lines 30-47 *)

\* A JSON value is a record with its type; an object's members map its
\* keys to values.
JsonString(s) == [ type |-> "string", s |-> s ]

JsonNumber(n) == [ type |-> "number", n |-> n ]

JsonBool(b) == [ type |-> "bool", b |-> b ]

JsonNull == [ type |-> "null" ]

\* The member values and the member names of the JSON objects of the model.
JsonScalars ==
    { JsonString("1"), JsonString(""), JsonNumber(2), JsonBool(TRUE), JsonNull }

JsonKeys == << "A", "B", "C" >>

\* The JSON objects of the model: every map from some of the names to the
\* member values.
JsonObjects ==
    UNION { [ ks -> JsonScalars ] :
              ks \in SUBSET { JsonKeys[k] : k \in 1..Len(JsonKeys) } }

\* The JSON text of a scalar.
JsonScalarText(v) ==
    CASE v.type = "string" -> "\"" \o v.s \o "\""
      [] v.type = "number" -> ToString(v.n)
      [] v.type = "bool"   -> IF v.b THEN "true" ELSE "false"
      [] OTHER             -> "null"

\* The JSON text of the members of an object from name k on, in the order
\* of JsonKeys, separated by commas.
RECURSIVE JsonMembersText(_, _, _)
JsonMembersText(members, k, first) ==
    IF k > Len(JsonKeys) THEN ""
    ELSE IF JsonKeys[k] \in DOMAIN members
         THEN (IF first THEN "" ELSE ",")
                 \o "\"" \o JsonKeys[k] \o "\":" \o JsonScalarText(members[JsonKeys[k]])
                 \o JsonMembersText(members, k + 1, FALSE)
         ELSE JsonMembersText(members, k + 1, first)

\* The JSON text of an object, as in {"A":"1","B":2}.
JsonObjectText(members) == "{" \o JsonMembersText(members, 1, TRUE) \o "}"

\* json.loads (line 38) on the --headers texts of the model: the text of
\* one of the JSON objects, of an array, of a number, or malformed text.
JsonLoads(text) ==
    CASE \E members \in JsonObjects : JsonObjectText(members) = text ->
            [ ok |-> TRUE,
              value |-> [ type |-> "object",
                          members |-> CHOOSE members \in JsonObjects :
                                         JsonObjectText(members) = text ] ]
      [] text = "[1,2]" ->
            [ ok |-> TRUE,
              value |-> [ type |-> "array",
                          items |-> << JsonNumber(1), JsonNumber(2) >> ] ]
      [] text = "7" ->
            [ ok |-> TRUE, value |-> JsonNumber(7) ]
      [] OTHER ->
            [ ok |-> FALSE, msg |-> "JSONDecodeError" ]

\* Variant of the coercion with a slip: json.dumps(v) instead of str(v).
PyStr_json_form(v) == JsonScalarText(v)

\* Python's str() on a JSON scalar (line 41).  Keys of a JSON object are
\* strings already, so str(k) is k.
PyStr(v) ==
    CASE v.type = "string" -> v.s
      [] v.type = "number" -> ToString(v.n)
      [] v.type = "bool"   -> IF v.b THEN "True" ELSE "False"
      [] OTHER             -> "None"

\* A line printed by the program: the channel, the format, its arguments.
\* `at` is the loop iteration that printed it (0 outside the loop); it is
\* an annotation of the history, not part of the printed text.
Line(chan, text, a, at) == [ chan |-> chan, text |-> text, args |-> a, at |-> at ]

\* Variant of parse_headers with a slip: input that is not a JSON object
\* yields an empty map instead of None.
parse_headers_lenient(headers_str) ==
    IF ~TruthyStr(headers_str)
    THEN [ ret |-> None, printed |-> << >> ]
    ELSE LET parsed == JsonLoads(headers_str[1])
         IN  IF parsed.ok /\ parsed.value.type = "object"
             THEN [ ret |-> Some([ k \in DOMAIN parsed.value.members |->
                                     PyStr(parsed.value.members[k]) ]),
                    printed |-> << >> ]
             ELSE [ ret |-> Some(<< >>),
                    printed |-> << Line("stderr",
                                        "ERRO: --headers deve ser um JSON object",
                                        << >>, 0) >> ]

\* Lines 35-47.  The result is the returned value and the lines printed.
parse_headers(headers_str) ==
    IF ~TruthyStr(headers_str)
    THEN [ ret |-> None, printed |-> << >> ]
    ELSE LET parsed == JsonLoads(headers_str[1])
         IN  IF ~parsed.ok
             THEN [ ret |-> None,
                    printed |-> << Line("stderr", "ERRO ao parsear --headers JSON",
                                        << parsed.msg >>, 0) >> ]
             ELSE IF parsed.value.type = "object"
                  THEN [ ret |-> Some([ k \in DOMAIN parsed.value.members |->
                                          PyStr(parsed.value.members[k]) ]),
                         printed |-> << >> ]
                  ELSE [ ret |-> None,
                         printed |-> << Line("stderr",
                                        "ERRO: --headers deve ser um JSON object",
                                        << >>, 0) >> ]

---------------------------------------------------------------------------
(* build_base_opts, lines 64-98 *)

\* os.path.join (line 79): a path is the sequence of its components.
PathJoin(dir, name) == Append(dir, name)

\* os.path.abspath (line 216) of a relative path.
AbsPath(rel) == << "/cwd", rel >>

\* Variant of build_base_opts with a slip: the username key is always set,
\* to an empty placeholder when no username was given.
build_base_opts_placeholder(outdir, quiet, cookiefile, username, password, hdrs) ==
    LET opts0 == [ quiet        |-> quiet,
                   no_warnings  |-> quiet,
                   outtmpl      |-> PathJoin(outdir, "%(title)s - %(id)s.%(ext)s"),
                   ignoreerrors |-> TRUE ]
        opts1 == IF TruthyStr(cookiefile)
                 THEN Update(opts0, "cookiefile" :> cookiefile[1]) ELSE opts0
        opts2 == Update(opts1, "username" :> IF TruthyStr(username)
                                              THEN username[1] ELSE "")
        opts3 == IF TruthyStr(password)
                 THEN Update(opts2, "password" :> password[1]) ELSE opts2
        opts4 == IF TruthySeq(hdrs)
                 THEN Update(opts3, "http_headers" :> hdrs[1]) ELSE opts3
    IN  opts4

\* Lines 74-98.  The result is a dict: a function from the keys present.
build_base_opts(outdir, quiet, cookiefile, username, password, hdrs) ==
    LET opts0 == [ quiet        |-> quiet,
                   no_warnings  |-> quiet,
                   outtmpl      |-> PathJoin(outdir, "%(title)s - %(id)s.%(ext)s"),
                   ignoreerrors |-> TRUE ]
        opts1 == IF TruthyStr(cookiefile)
                 THEN Update(opts0, "cookiefile" :> cookiefile[1]) ELSE opts0
        opts2 == IF TruthyStr(username)
                 THEN Update(opts1, "username" :> username[1]) ELSE opts1
        opts3 == IF TruthyStr(password)
                 THEN Update(opts2, "password" :> password[1]) ELSE opts2
        opts4 == IF TruthySeq(hdrs)
                 THEN Update(opts3, "http_headers" :> hdrs[1]) ELSE opts3
    IN  opts4

\* The arguments build_base_opts is applied to on its own: each optional
\* setting missing, empty, or given.
HeaderMaps == { None, Some(<< >>), Some([ A |-> "1", B |-> "2" ]) }

BuilderInputs ==
    [ outdir     : { AbsPath("downloads") },
      quiet      : BOOLEAN,
      cookiefile : { None, Some(""), Some("cookies.txt") },
      username   : { None, Some(""), Some("user") },
      password   : { None, Some(""), Some("secret") },
      headers    : HeaderMaps ]

---------------------------------------------------------------------------
(* The external collaborator and the metadata it returns *)

\* Largest number of child entries of a playlist.
MaxEntries == 2

\* A call to the collaborator either raises or returns a value.
Raise(msg) == [ exc |-> Some(msg), val |-> None ]

Return(v) == [ exc |-> None, val |-> v ]

\* A metadata object (an "info dict") with the keys the program reads.
Info(webpage_url, url, id, ttl, formats) ==
    [ entries |-> None, webpage_url |-> webpage_url, url |-> url, id |-> id,
      title |-> ttl, formats |-> formats,
      is_live |-> None, width |-> None, height |-> None ]

VideoFormats == << [ vcodec |-> Some("avc1") ], [ vcodec |-> Some("none") ] >>

AudioFormats == << [ vcodec |-> Some("none") ] >>

\* The entries of the model: with video formats and both URLs and a title;
\* with audio formats, a media URL only and neither title nor id; with an
\* id only; with both URLs but an empty format list; with a media URL and
\* an id but no format list.
EntryClip == Info(Some("https://site/watch/a"), Some("https://cdn/a"), Some("a"),
                  Some("Clip A"), Some(VideoFormats))

EntrySong == Info(None, Some("https://cdn/b"), None, None, Some(AudioFormats))

EntryBare == Info(None, None, Some("c"), None, None)

EntryFlat == Info(Some("https://site/watch/d"), Some("https://cdn/d"), Some("d"),
                  Some("Item D"), Some(<< >>))

EntryLink == Info(None, Some("https://cdn/e"), Some("e"), None, None)

EntryKinds == { EntryClip, EntrySong, EntryBare, EntryFlat, EntryLink }

\* A child of a playlist: an entry, or None (an item yt-dlp could not
\* extract, kept as None under 'ignoreerrors').
Children == { None } \cup { Some(e) : e \in EntryKinds }

Playlist(children) ==
    [ Info(Some("https://site/list"), None, Some("pl"), Some("List"), None)
         EXCEPT !.entries = Some(children) ]

\* What a detail query can return: a detailed object with video formats
\* (and its own URL and title), one with audio formats only, or None.
DetailVideo == Info(Some("https://site/watch/detail"), Some("https://cdn/detail"),
                    Some("detail"), Some("Detailed"), Some(VideoFormats))

DetailAudio == Info(None, None, Some("detail"), None, Some(AudioFormats))

ErrMsgs == { "HTTP Error 403" }

DetailOutcomes ==
    { Raise(m) : m \in ErrMsgs }
        \cup { Return(None), Return(Some(DetailVideo)), Return(Some(DetailAudio)) }

\* ydl.download returns a status code, which the program ignores.
DownloadOutcomes == { Raise(m) : m \in ErrMsgs } \cup { Return(None) }

\* The top-level metadata objects: a single item (without an 'entries' key
\* or with an empty one), or a playlist of at most MaxEntries children.
TopInfos ==
    { [ e EXCEPT !.entries = en ] : e \in EntryKinds, en \in { None, Some(<< >>) } }
        \cup { Playlist(ch) : ch \in SeqUpTo(Children, MaxEntries) \ { << >> } }

\* What the top-level query can do on a URL.
Sites == { Raise(m) : m \in ErrMsgs } \cup { Return(None) }
            \cup { Return(Some(info)) : info \in TopInfos }

\* The URLs of the command-line runs: one that fails to resolve, one that
\* resolves to nothing, a single item, and a playlist with an entry needing
\* a detail query, an unextracted child and an entry with formats.
MainSites ==
    { Raise("HTTP Error 403"), Return(None), Return(Some(EntrySong)),
      Return(Some(Playlist(<< Some(EntryBare), None, Some(EntryClip) >>))) }

\* info_or_url (line 100) is a URL string or a metadata dict (line 115).
UrlArg(u) == [ type |-> "str", value |-> u ]

DictArg(d) == [ type |-> "dict", value |-> d ]

---------------------------------------------------------------------------
(* Initial states *)

\* The command lines of the model (line 213).
ArgvSet ==
    [ url      : { "https://site/page" },
      outdir   : { "downloads" },
      yes      : BOOLEAN,
      verbose  : BOOLEAN,
      cookies  : { None, Some(""), Some("cookies.txt"), Some("missing.txt") },
      username : { None, Some("user") },
      password : { None, Some("secret") },
      headers  : { None, Some(""), Some("{oops"), Some("[1,2]"), Some("{}"),
                   Some("{\"A\":\"1\",\"B\":2}") } ]

\* os.path.isfile (line 239): the files that exist.
ExistingFiles == { "cookies.txt" }

\* Variant of the cookie check with a slip: any path that names something
\* passes, whether or not it is a file that exists.
isfile_any(path) == path # ""

isfile(path) == path \in ExistingFiles

\* input(...).strip().lower() (line 232) on the answers of the model.
Answers == { "y", " YES ", "n", "" }

StripLower(answer) ==
    CASE answer = " YES " -> "yes"
      [] OTHER -> answer

\* The locals of download_entries before it runs.
LocalsUnset ==
    /\ base_opts = None
    /\ initial_info = None
    /\ entries = << >>
    /\ i = 0
    /\ entry_url = None
    /\ title = None
    /\ is_video = None
    /\ opts = None

\* The program started from the command line: main is about to run.
Init ==
    /\ pc = "main"
    /\ args \in { Some(a) : a \in ArgvSet }
    /\ site \in MainSites
    /\ req = None
    /\ headers = None
    /\ exit_status = None
    /\ dirs = { }
    /\ stdin = << >>
    /\ LocalsUnset
    /\ calls = << >>
    /\ out = << >>
    /\ fn_in = None
    /\ fn_out = None

---------------------------------------------------------------------------
(* main, lines 201-248 *)

\* sys.exit(1) (lines 223, 235, 241).
Exit1 == pc' = "exit" /\ exit_status' = Some(1)

\* Lines 215-223: the output directory is created, --headers is parsed, and
\* the run aborts when --headers was given and did not parse to a dict.
MainParseHeaders ==
    /\ pc = "main"
    /\ LET a == args[1]
           r == parse_headers(a.headers)
       IN  /\ dirs' = dirs \cup { AbsPath(a.outdir) }
           /\ headers' = r.ret
           /\ out' = out \o r.printed
           /\ IF TruthyStr(a.headers) /\ r.ret = None
              THEN Exit1
              ELSE pc' = "consent" /\ exit_status' = exit_status
    /\ UNCHANGED << args, site, req, stdin, base_opts, initial_info, entries,
                    i, entry_url, title, is_video, opts, calls, fn_in, fn_out >>

\* Lines 226-235: the legal notice, and the prompt unless --yes.
MainConsent ==
    /\ pc = "consent"
    /\ LET notice == Line("stdout", "ATENCAO: voce declara que tem direito", << >>, 0)
       IN  IF args[1].yes
           THEN /\ out' = Append(out, notice)
                /\ stdin' = stdin
                /\ pc' = "auth"
                /\ exit_status' = exit_status
           ELSE \E answer \in Answers :
                   LET resp == StripLower(answer)
                   IN  /\ stdin' = Append(stdin, answer)
                       /\ IF resp \notin { "y", "yes" }
                          THEN /\ out' = out \o << notice,
                                        Line("stdout", "Operacao cancelada.", << >>, 0) >>
                               /\ Exit1
                          ELSE /\ out' = Append(out, notice)
                               /\ pc' = "auth"
                               /\ exit_status' = exit_status
    /\ UNCHANGED << args, site, req, headers, dirs, base_opts, initial_info,
                    entries, i, entry_url, title, is_video, opts, calls,
                    fn_in, fn_out >>

\* Lines 238-245: the cookie file must exist; feedback on authentication.
MainAuth ==
    /\ pc = "auth"
    /\ LET a == args[1]
           cookieLine ==
               IF TruthyStr(a.cookies)
               THEN << Line("stdout", "Usando cookies a partir de", << a.cookies[1] >>, 0) >>
               ELSE << >>
           userLine ==
               IF TruthyStr(a.username)
               THEN << Line("stdout", "Usando autenticacao por usuario/senha", << >>, 0) >>
               ELSE << >>
       IN  IF TruthyStr(a.cookies) /\ ~isfile(a.cookies[1])
           THEN /\ out' = Append(out, Line("stderr",
                                   "ERRO: arquivo de cookies nao encontrado",
                                   << a.cookies[1] >>, 0))
                /\ Exit1
           ELSE /\ out' = out \o cookieLine \o userLine
                /\ pc' = "call"
                /\ exit_status' = exit_status
    /\ UNCHANGED << args, site, req, headers, dirs, stdin, base_opts, initial_info,
                    entries, i, entry_url, title, is_video, opts, calls,
                    fn_in, fn_out >>

\* Line 248: download_entries is called with the URL and the settings.
MainCall ==
    /\ pc = "call"
    /\ LET a == args[1]
       IN  req' = Some([ info_or_url |-> UrlArg(a.url),
                         outdir      |-> AbsPath(a.outdir),
                         verbose     |-> a.verbose,
                         cookiefile  |-> a.cookies,
                         username    |-> a.username,
                         password    |-> a.password,
                         headers     |-> headers ])
    /\ pc' = "resolve"
    /\ UNCHANGED << args, site, headers, exit_status, dirs, stdin, base_opts,
                    initial_info, entries, i, entry_url, title, is_video, opts,
                    calls, out, fn_in, fn_out >>

---------------------------------------------------------------------------
(* download_entries, lines 100-195 *)

\* A call made to YoutubeDL: extract_info(target, download=False) or
\* download(target), the options the YoutubeDL object was built with, what
\* the call did, and the loop iteration that made it (0 before the loop).
Call(op, target, o, outcome, at) ==
    [ op |-> op, target |-> target, opts |-> o, outcome |-> outcome, at |-> at ]

\* Lines 132-134: the children that are truthy, in order.
RECURSIVE NonNull(_)
NonNull(children) ==
    IF children = << >> THEN << >>
    ELSE IF Head(children) # None
         THEN << Head(children)[1] >> \o NonNull(Tail(children))
         ELSE NonNull(Tail(children))

\* Variant of the normalization with a slip: an entry equal to an earlier
\* one is dropped.
RECURSIVE Dedup(_)
Dedup(s) ==
    IF s = << >> THEN << >>
    ELSE LET front == Dedup(SubSeq(s, 1, Len(s) - 1))
             last  == s[Len(s)]
         IN  IF \E k \in 1..Len(front) : front[k] = last
             THEN front ELSE Append(front, last)

NormalizeEntries_dedup(info) ==
    IF TruthySeq(info.entries) THEN Dedup(NonNull(info.entries[1])) ELSE << info >>

\* Lines 130-136.
NormalizeEntries(info) ==
    IF TruthySeq(info.entries) THEN NonNull(info.entries[1]) ELSE << info >>

\* Variant of ReturnToCaller with a slip: the process ends with status 1
\* when an error was reported on stderr.
ReturnToCaller_status_by_errors ==
    IF args # None
    THEN /\ pc' = "exit"
         /\ exit_status' = IF \E l \in 1..Len(out) : out[l].chan = "stderr"
                           THEN Some(1) ELSE Some(0)
    ELSE pc' = "returned" /\ exit_status' = exit_status

\* download_entries returns (lines 123, 127, end of the loop); when main
\* called it, main ends and the process exits with status 0.
ReturnToCaller ==
    IF args # None
    THEN pc' = "exit" /\ exit_status' = Some(0)
    ELSE pc' = "returned" /\ exit_status' = exit_status

\* Variant of Resolve with a slip: the check of line 125 is missing, so a
\* query that returned nothing is appended as an entry, which the loop skips.
Resolve_no_none_check ==
    /\ pc = "resolve"
    /\ LET r  == req[1]
           bo == build_base_opts(r.outdir, ~r.verbose, r.cookiefile, r.username,
                                 r.password, r.headers)
           isDict == r.info_or_url.type = "dict"
           answer == IF isDict THEN Return(Some(r.info_or_url.value)) ELSE site
       IN  /\ base_opts' = Some(bo)
           /\ calls' = IF isDict THEN calls
                       ELSE Append(calls, Call("extract_info", Some(r.info_or_url.value),
                                               bo, site, 0))
           /\ IF answer.exc # None
              THEN /\ out' = Append(out, Line("stderr",
                                   "Erro ao extrair informacoes iniciais da URL",
                                   << answer.exc[1] >>, 0))
                   /\ UNCHANGED << initial_info, entries, i >>
                   /\ ReturnToCaller
              ELSE /\ initial_info' = answer.val
                   /\ entries' = IF answer.val = None THEN << >>
                                 ELSE NormalizeEntries(answer.val[1])
                   /\ i' = 1
                   /\ pc' = "loop"
                   /\ UNCHANGED << out, exit_status >>
    /\ UNCHANGED << args, site, req, headers, dirs, stdin, entry_url, title,
                    is_video, opts, fn_in, fn_out >>

\* Lines 108-136: the base options, the top-level query (unless a dict was
\* passed), and the entry list.
Resolve ==
    /\ pc = "resolve"
    /\ LET r  == req[1]
           bo == build_base_opts(r.outdir, ~r.verbose, r.cookiefile, r.username,
                                 r.password, r.headers)
           isDict == r.info_or_url.type = "dict"
           answer == IF isDict THEN Return(Some(r.info_or_url.value)) ELSE site
       IN  /\ base_opts' = Some(bo)
           /\ calls' = IF isDict THEN calls
                       ELSE Append(calls, Call("extract_info", Some(r.info_or_url.value),
                                               bo, site, 0))
           /\ IF answer.exc # None
              THEN /\ out' = Append(out, Line("stderr",
                                   "Erro ao extrair informacoes iniciais da URL",
                                   << answer.exc[1] >>, 0))
                   /\ UNCHANGED << initial_info, entries, i >>
                   /\ ReturnToCaller
              ELSE /\ initial_info' = answer.val
                   /\ IF answer.val = None
                      THEN /\ out' = Append(out, Line("stderr",
                                   "Nenhuma informacao foi obtida da URL.", << >>, 0))
                           /\ UNCHANGED << entries, i >>
                           /\ ReturnToCaller
                      ELSE /\ entries' = NormalizeEntries(answer.val[1])
                           /\ i' = 1
                           /\ pc' = "loop"
                           /\ UNCHANGED << out, exit_status >>
    /\ UNCHANGED << args, site, req, headers, dirs, stdin, entry_url, title, is_video,
                    opts, fn_in, fn_out >>

\* Lines 139-144: the next entry, its URL and its title; the function
\* returns when the list is exhausted.  The `continue` of lines 140-141 is
\* never taken: lines 132-134 put only truthy entries in the list, and the
\* single metadata object of line 136 is truthy after line 125.
LoopHead ==
    /\ pc = "loop"
    /\ IF i > Len(entries)
       THEN /\ ReturnToCaller
            /\ UNCHANGED << entry_url, title, out >>
       ELSE LET entry == entries[i]
                t == OrStr(OrStr(entry.title, entry.id), Some("untitled"))
            IN  /\ entry_url' = OrStr(entry.webpage_url, entry.url)
                /\ title' = t
                /\ out' = Append(out, Line("stdout", "Processando", << t[1] >>, i))
                /\ pc' = "classify"
                /\ exit_status' = exit_status
    /\ UNCHANGED << args, site, req, headers, dirs, stdin, base_opts, initial_info,
                    entries, i, is_video, opts, calls, fn_in, fn_out >>

\* has_video(None) (line 155, after extract_info returned None) raises this.
NoneTypeError == "'NoneType' object has no attribute 'get'"

\* Variant of the detail query's address with a slip: the identifier is
\* used unless there is a webpage URL.
DetailTarget_id_unless_webpage(url, entry) == OrStr(entry.webpage_url, entry.id)

\* Line 154: the detail query is addressed to `entry_url or entry.get('id')`.
DetailTarget(url, entry) == OrStr(url, entry.id)

\* Variant of Classify with a slip: an entry whose detail query fails is
\* reported and skipped (`continue` in the except clause).
Classify_skip_on_error ==
    /\ pc = "classify"
    /\ LET entry == entries[i]
           failed(msg) == Line("stderr", "Erro ao analisar formats do item", << msg >>, i)
       IN  IF TruthySeq(entry.formats)
           THEN /\ is_video' = Some(has_video(entry))
                /\ pc' = "configure"
                /\ UNCHANGED << calls, out, i >>
           ELSE \E o \in DetailOutcomes :
                   /\ calls' = Append(calls, Call("extract_info",
                                        DetailTarget(entry_url, entry), base_opts[1], o, i))
                   /\ IF o.exc # None \/ o.val = None
                      THEN /\ is_video' = is_video
                           /\ out' = Append(out, failed(IF o.exc # None THEN o.exc[1]
                                                        ELSE NoneTypeError))
                           /\ i' = i + 1
                           /\ pc' = "loop"
                      ELSE /\ is_video' = Some(has_video(o.val[1]))
                           /\ out' = out
                           /\ i' = i
                           /\ pc' = "configure"
    /\ UNCHANGED << args, site, req, headers, exit_status, dirs, stdin, base_opts,
                    initial_info, entries, entry_url, title, opts,
                    fn_in, fn_out >>

\* Variant of Classify with a slip: the detailed result replaces the entry,
\* so the URL downloaded is the one of the detailed result.
Classify_adopts_detail ==
    /\ pc = "classify"
    /\ LET entry == entries[i]
           failed(msg) == Line("stderr", "Erro ao analisar formats do item", << msg >>, i)
       IN  IF TruthySeq(entry.formats)
           THEN /\ is_video' = Some(has_video(entry))
                /\ UNCHANGED << calls, out, entry_url >>
           ELSE \E o \in DetailOutcomes :
                   /\ calls' = Append(calls, Call("extract_info",
                                        DetailTarget(entry_url, entry), base_opts[1], o, i))
                   /\ IF o.exc # None
                      THEN /\ is_video' = Some(TRUE)
                           /\ out' = Append(out, failed(o.exc[1]))
                           /\ entry_url' = entry_url
                      ELSE IF o.val = None
                           THEN /\ is_video' = Some(TRUE)
                                /\ out' = Append(out, failed(NoneTypeError))
                                /\ entry_url' = entry_url
                           ELSE /\ is_video' = Some(has_video(o.val[1]))
                                /\ out' = out
                                /\ entry_url' = OrStr(o.val[1].webpage_url, o.val[1].url)
    /\ pc' = "configure"
    /\ UNCHANGED << args, site, req, headers, exit_status, dirs, stdin, base_opts,
                    initial_info, entries, i, title, opts,
                    fn_in, fn_out >>

\* Lines 146-158: the entry is classified, on its own metadata when it has
\* formats and on the result of a detail query otherwise; any exception
\* makes it a video.
Classify ==
    /\ pc = "classify"
    /\ LET entry == entries[i]
           failed(msg) == Line("stderr", "Erro ao analisar formats do item", << msg >>, i)
       IN  IF TruthySeq(entry.formats)
           THEN /\ is_video' = Some(has_video(entry))
                /\ UNCHANGED << calls, out >>
           ELSE \E o \in DetailOutcomes :
                   /\ calls' = Append(calls, Call("extract_info",
                                        DetailTarget(entry_url, entry), base_opts[1], o, i))
                   /\ IF o.exc # None
                      THEN /\ is_video' = Some(TRUE)
                           /\ out' = Append(out, failed(o.exc[1]))
                      ELSE IF o.val = None
                           THEN /\ is_video' = Some(TRUE)
                                /\ out' = Append(out, failed(NoneTypeError))
                           ELSE /\ is_video' = Some(has_video(o.val[1]))
                                /\ out' = out
    /\ pc' = "configure"
    /\ UNCHANGED << args, site, req, headers, exit_status, dirs, stdin, base_opts,
                    initial_info, entries, i, entry_url, title, opts,
                    fn_in, fn_out >>

\* Lines 165-175.
VideoOpts ==
    [ format              |-> "bestvideo+bestaudio/best",
      merge_output_format |-> "mp4",
      postprocessors      |-> << [ key |-> "FFmpegVideoConvertor",
                                   preferedformat |-> "mp4" ] >> ]

\* Lines 178-187.
AudioOpts ==
    [ format         |-> "bestaudio/best",
      postprocessors |-> << [ key |-> "FFmpegExtractAudio",
                              preferredcodec |-> "mp3",
                              preferredquality |-> "192" ] >> ]

\* Variant of EntryOpts with a slip: the audio options are laid over the
\* video options instead of over the base options.
EntryOpts_leftover(r, video) ==
    LET o == build_base_opts(r.outdir, ~r.verbose, r.cookiefile, r.username,
                             r.password, r.headers)
    IN  IF video THEN Update(o, VideoOpts)
        ELSE Update(Update(o, VideoOpts), AudioOpts)

\* Lines 161-187: the options of one download, by kind.
EntryOpts(r, video) ==
    LET o == build_base_opts(r.outdir, ~r.verbose, r.cookiefile, r.username,
                             r.password, r.headers)
    IN  IF video THEN Update(o, VideoOpts) ELSE Update(o, AudioOpts)

\* Variant of Configure with a slip: the options of the entry are laid over
\* the dict built once at line 111 (`opts = base_opts`), which they change.
Configure_shared_base ==
    /\ pc = "configure"
    /\ opts' = Some(Update(base_opts[1], IF is_video[1] THEN VideoOpts ELSE AudioOpts))
    /\ base_opts' = opts'
    /\ out' = Append(out, IF is_video[1]
                          THEN Line("stdout", " -> Tipo detectado: VIDEO", << >>, i)
                          ELSE Line("stdout", " -> Tipo detectado: AUDIO", << >>, i))
    /\ pc' = "download"
    /\ UNCHANGED << args, site, req, headers, exit_status, dirs, stdin,
                    initial_info, entries, i, entry_url, title, is_video, calls,
                    fn_in, fn_out >>

\* Lines 160-187.
Configure ==
    /\ pc = "configure"
    /\ opts' = Some(EntryOpts(req[1], is_video[1]))
    /\ out' = Append(out, IF is_video[1]
                          THEN Line("stdout", " -> Tipo detectado: VIDEO", << >>, i)
                          ELSE Line("stdout", " -> Tipo detectado: AUDIO", << >>, i))
    /\ pc' = "download"
    /\ UNCHANGED << args, site, req, headers, exit_status, dirs, stdin, base_opts,
                    initial_info, entries, i, entry_url, title, is_video, calls,
                    fn_in, fn_out >>

\* Variant of Download with a slip: no try/except around the download, so
\* an exception leaves download_entries (and ends the process with status 1
\* when main called it).
Download_no_catch ==
    /\ pc = "download"
    /\ \E o \in DownloadOutcomes :
          /\ calls' = Append(calls, Call("download", << entry_url >>, opts[1], o, i))
          /\ IF o.exc # None
             THEN /\ out' = out
                  /\ i' = i
                  /\ pc' = IF args # None THEN "exit" ELSE "returned"
                  /\ exit_status' = IF args # None THEN Some(1) ELSE exit_status
             ELSE /\ out' = Append(out, Line("stdout", " --> Concluido.", << >>, i))
                  /\ i' = i + 1
                  /\ pc' = "loop"
                  /\ exit_status' = exit_status
    /\ UNCHANGED << args, site, req, headers, dirs, stdin, base_opts,
                    initial_info, entries, entry_url, title, is_video, opts,
                    fn_in, fn_out >>

\* Variant of Download with a slip: a download that raised is tried a
\* second time before the failure is reported.
Download_retry_once ==
    /\ pc = "download"
    /\ \E o \in DownloadOutcomes :
          /\ calls' = Append(calls, Call("download", << entry_url >>, opts[1], o, i))
          /\ IF o.exc # None
                /\ { j \in 1..Len(calls) : calls[j].op = "download" /\ calls[j].at = i } = { }
             THEN /\ out' = out
                  /\ i' = i
                  /\ pc' = "download"
             ELSE /\ out' = Append(out, IF o.exc # None
                                        THEN Line("stderr", "Erro durante o download/processing",
                                                  << o.exc[1] >>, i)
                                        ELSE Line("stdout", " --> Concluido.", << >>, i))
                  /\ i' = i + 1
                  /\ pc' = "loop"
    /\ UNCHANGED << args, site, req, headers, exit_status, dirs, stdin, base_opts,
                    initial_info, entries, entry_url, title, is_video, opts,
                    fn_in, fn_out >>

\* Variant of Download with a slip: the download is handed over to run
\* later and the loop goes on to the next entry at once.
Download_deferred ==
    /\ pc = "download"
    /\ i' = i + 1
    /\ pc' = "loop"
    /\ UNCHANGED << args, site, req, headers, exit_status, dirs, stdin, base_opts,
                    initial_info, entries, entry_url, title, is_video, opts,
                    calls, out, fn_in, fn_out >>

\* Lines 189-195: the download of the entry; an exception is reported and
\* the loop goes on.
Download ==
    /\ pc = "download"
    /\ \E o \in DownloadOutcomes :
          /\ calls' = Append(calls, Call("download", << entry_url >>, opts[1], o, i))
          /\ out' = Append(out, IF o.exc # None
                                THEN Line("stderr", "Erro durante o download/processing",
                                          << o.exc[1] >>, i)
                                ELSE Line("stdout", " --> Concluido.", << >>, i))
    /\ i' = i + 1
    /\ pc' = "loop"
    /\ UNCHANGED << args, site, req, headers, exit_status, dirs, stdin, base_opts,
                    initial_info, entries, entry_url, title, is_video, opts,
                    fn_in, fn_out >>

\* The steps of download_entries.
NextCore == Resolve \/ LoopHead \/ Classify \/ Configure \/ Download

\* The steps of the program.
Next == MainParseHeaders \/ MainConsent \/ MainAuth \/ MainCall \/ NextCore

Spec == Init /\ [][Next]_vars

---------------------------------------------------------------------------
(* download_entries called on its own *)

\* The request settings of the direct calls: nothing optional given, and
\* everything given.
CoreSettings ==
    { [ outdir |-> AbsPath("downloads"), verbose |-> FALSE, cookiefile |-> None,
        username |-> None, password |-> None, headers |-> None ],
      [ outdir |-> AbsPath("downloads"), verbose |-> TRUE,
        cookiefile |-> Some("cookies.txt"), username |-> Some("user"),
        password |-> Some("secret"), headers |-> Some([ A |-> "1", B |-> "2" ]) ] }

WithInput(settings, input) ==
    [ info_or_url |-> input, outdir |-> settings.outdir,
      verbose |-> settings.verbose, cookiefile |-> settings.cookiefile,
      username |-> settings.username, password |-> settings.password,
      headers |-> settings.headers ]

\* download_entries is about to run on a URL (which resolves to any of the
\* Sites) or on a metadata dict obtained earlier.
InitCore ==
    /\ pc = "resolve"
    /\ args = None
    /\ \E st \in CoreSettings :
          \/ /\ req = Some(WithInput(st, UrlArg("https://site/page")))
             /\ site \in Sites
          \/ /\ req \in { Some(WithInput(st, DictArg(d))) : d \in TopInfos }
             /\ site = Return(None)
    /\ headers = None
    /\ exit_status = None
    /\ dirs = { }
    /\ stdin = << >>
    /\ LocalsUnset
    /\ calls = << >>
    /\ out = << >>
    /\ fn_in = None
    /\ fn_out = None

SpecCore == InitCore /\ [][NextCore]_vars

\* The calls of download_entries with every optional setting given (the
\* settings change the options of the calls, not the path through the code).
InitCoreLive == InitCore /\ req[1].headers # None

\* download_entries as it runs: the interpreter goes on to the next
\* statement, and every call of extract_info and download returns or raises.
SpecCoreLive == InitCoreLive /\ [][NextCore]_vars /\ WF_vars(NextCore)

---------------------------------------------------------------------------
(* has_video, build_base_opts and parse_headers applied on their own *)

\* Nothing of the program runs while a function is applied on its own.
ProgramIdle ==
    /\ args = None
    /\ site = Return(None)
    /\ req = None
    /\ headers = None
    /\ exit_status = None
    /\ dirs = { }
    /\ stdin = << >>
    /\ LocalsUnset
    /\ calls = << >>
    /\ out = << >>

InitHasVideo ==
    /\ pc = "has_video"
    /\ fn_in \in { Some(x) : x \in ClassifierInputs }
    /\ fn_out = None
    /\ ProgramIdle

CallHasVideo ==
    /\ pc = "has_video"
    /\ fn_out' = Some(has_video(fn_in[1]))
    /\ pc' = "has_video:return"
    /\ UNCHANGED << args, site, req, headers, exit_status, dirs, stdin, base_opts,
                    initial_info, entries, i, entry_url, title, is_video, opts,
                    calls, out, fn_in >>

SpecHasVideo == InitHasVideo /\ [][CallHasVideo]_vars

InitBuildBaseOpts ==
    /\ pc = "build_base_opts"
    /\ fn_in \in { Some(x) : x \in BuilderInputs }
    /\ fn_out = None
    /\ ProgramIdle

CallBuildBaseOpts ==
    /\ pc = "build_base_opts"
    /\ LET a == fn_in[1]
       IN  fn_out' = Some(build_base_opts(a.outdir, a.quiet, a.cookiefile,
                                          a.username, a.password, a.headers))
    /\ pc' = "build_base_opts:return"
    /\ UNCHANGED << args, site, req, headers, exit_status, dirs, stdin, base_opts,
                    initial_info, entries, i, entry_url, title, is_video, opts,
                    calls, out, fn_in >>

SpecBuildBaseOpts == InitBuildBaseOpts /\ [][CallBuildBaseOpts]_vars

\* The --headers texts parse_headers is applied to on its own: no text, an
\* empty text, malformed text, an array, a number, and every JSON object of
\* the model.
HeaderTexts ==
    { None, Some(""), Some("{oops"), Some("[1,2]"), Some("7") }
        \cup { Some(JsonObjectText(members)) : members \in JsonObjects }

InitParseHeaders ==
    /\ pc = "parse_headers"
    /\ fn_in \in { Some(x) : x \in HeaderTexts }
    /\ fn_out = None
    /\ ProgramIdle

CallParseHeaders ==
    /\ pc = "parse_headers"
    /\ LET r == parse_headers(fn_in[1])
       IN  /\ fn_out' = Some(r.ret)
           /\ out' = out \o r.printed
    /\ pc' = "parse_headers:return"
    /\ UNCHANGED << args, site, req, headers, exit_status, dirs, stdin,
                    base_opts, initial_info, entries, i, entry_url, title,
                    is_video, opts, calls, fn_in >>

SpecParseHeaders == InitParseHeaders /\ [][CallParseHeaders]_vars

---------------------------------------------------------------------------
(* Properties *)

\* The program, or the direct call of download_entries, has ended.
Finished == pc \in { "exit", "returned" }

\* The download invocations made so far, in order.
DownloadCalls == SelectSeq(calls, LAMBDA c : c.op = "download")

\* The metadata queries made from inside the loop (detail queries).
DetailCalls == SelectSeq(calls, LAMBDA c : c.op = "extract_info" /\ c.at > 0)

\* The source URL an entry carries: its webpage URL, else its media URL.
SourceUrlOf(e) == IF e.webpage_url # None THEN e.webpage_url ELSE e.url

\* The title an entry is announced with.
TitleOf(e) ==
    IF e.title # None THEN e.title[1]
    ELSE IF e.id # None THEN e.id[1] ELSE "untitled"

\* The number of download failures reported for loop iteration k.
DownloadFailureReports(k) ==
    Cardinality({ j \in 1..Len(out) :
                    /\ out[j].chan = "stderr"
                    /\ out[j].text = "Erro durante o download/processing"
                    /\ out[j].at = k })

\* The iterations whose download raised.
RaisedDownloads == { k \in 1..Len(DownloadCalls) : DownloadCalls[k].outcome.exc # None }

\* C1: per-entry failure isolation.  When download_entries has ended, the
\* download was invoked once for every entry, in the order of the entries
\* and with the entry's URL, whichever downloads raised; and a download
\* failure is reported exactly once for each entry whose download raised
\* and never for another entry (so one raising entry gives one report).
C1_FailureIsolation ==
    Finished =>
        /\ Len(DownloadCalls) = Len(entries)
        /\ \A k \in 1..Len(entries) :
              /\ DownloadCalls[k].at = k
              /\ DownloadCalls[k].target = << SourceUrlOf(entries[k]) >>
              /\ DownloadFailureReports(k) = IF k \in RaisedDownloads THEN 1 ELSE 0
        /\ Cardinality({ j \in 1..Len(out) :
                           out[j].text = "Erro durante o download/processing" })
             = Cardinality(RaisedDownloads)

\* A playlist of two entries whose first download raised and whose second
\* download was still made and returned, with one failure reported.
C1_Witness ==
    /\ Finished
    /\ Len(entries) = 2
    /\ Len(DownloadCalls) = 2
    /\ RaisedDownloads = { 1 }
    /\ DownloadFailureReports(1) = 1
    /\ DownloadFailureReports(2) = 0

\* The top-level query was made and raised or returned nothing.
TopQueryFailed ==
    /\ calls # << >>
    /\ calls[1].op = "extract_info"
    /\ calls[1].at = 0
    /\ (calls[1].outcome.exc # None \/ calls[1].outcome.val = None)

\* C2: resolution is all-or-nothing.  Once the top-level query has raised
\* or returned nothing, download_entries has ended with the failure
\* reported once on stderr, no entry was processed, and no other call (no
\* detail query, no download) was or is ever made.
C2_ResolutionAllOrNothing ==
    TopQueryFailed =>
        /\ Finished
        /\ Len(calls) = 1
        /\ entries = << >>
        /\ \A j \in 1..Len(out) : out[j].at = 0
        /\ Cardinality({ j \in 1..Len(out) :
              /\ out[j].chan = "stderr"
              /\ out[j].text \in { "Erro ao extrair informacoes iniciais da URL",
                                   "Nenhuma informacao foi obtida da URL." } }) = 1

\* The top-level query returned nothing and download_entries has ended.
C2_Witness ==
    /\ TopQueryFailed
    /\ calls[1].outcome.exc = None
    /\ Finished
    /\ out # << >>

\* The children of a playlist that are not None, in order, duplicates kept.
NonNullChildren(children) ==
    LET kept == SelectSeq(children, LAMBDA c : c # None)
    IN  [ k \in 1..Len(kept) |-> kept[k][1] ]

\* The lines announcing the entries processed, in order.
ProcessingLines == SelectSeq(out, LAMBDA l : l.text = "Processando")

\* C3: the entry sequence.  After a successful resolution the entry list is
\* the non-None children of the metadata's 'entries' in source order with
\* duplicates kept when that list is non-empty, and the metadata object
\* alone otherwise; and when the run has ended the entries announced and
\* downloaded are exactly these, in this order.
C3_EntrySequence ==
    (initial_info # None /\ pc # "resolve") =>
        LET info == initial_info[1]
            expected == IF info.entries # None /\ Len(info.entries[1]) > 0
                        THEN NonNullChildren(info.entries[1])
                        ELSE << info >>
        IN  /\ entries = expected
            /\ Finished =>
                 /\ Len(ProcessingLines) = Len(expected)
                 /\ Len(DownloadCalls) = Len(expected)
                 /\ \A k \in 1..Len(expected) :
                       /\ ProcessingLines[k].args = << TitleOf(expected[k]) >>
                       /\ ProcessingLines[k].at = k
                       /\ DownloadCalls[k].target = << SourceUrlOf(expected[k]) >>

\* A playlist whose first child is None and whose second child is an entry
\* has been processed: one entry was announced and downloaded.
C3_Witness ==
    /\ Finished
    /\ initial_info # None
    /\ initial_info[1].entries = Some(<< None, Some(EntryClip) >>)
    /\ Len(ProcessingLines) = 1
    /\ Len(DownloadCalls) = 1

\* The format list has a descriptor with a video codec that is present and
\* is not "none".
HasVideoCodec(info) ==
    /\ info.formats # None
    /\ \E k \in 1..Len(info.formats[1]) :
          /\ info.formats[1][k].vcodec # None
          /\ info.formats[1][k].vcodec # Some("none")

\* The live flag is set, or the width or the height is a non-zero number.
HasLiveOrSize(info) ==
    \/ info.is_live = Some(TRUE)
    \/ (info.width # None /\ info.width # Some(0))
    \/ (info.height # None /\ info.height # Some(0))

HasVideoReturned == pc = "has_video:return"

\* C4: has_video returns True (VIDEO) for every entry whose format list has
\* a descriptor with a present video codec other than "none", whatever the
\* live flag, the width, the height and the other descriptors are.
C4_VideoCodecMeansVideo ==
    (HasVideoReturned /\ HasVideoCodec(fn_in[1])) => fn_out = Some(TRUE)

\* has_video returned True on two descriptors, the second of which only
\* has a video codec, with no live flag and a zero width and height.
C4_Witness ==
    /\ HasVideoReturned
    /\ fn_in[1].formats = Some(<< [ vcodec |-> Some("none") ], [ vcodec |-> Some("avc1") ] >>)
    /\ fn_in[1].is_live = Some(FALSE)
    /\ fn_in[1].width = Some(0)
    /\ fn_in[1].height = Some(0)
    /\ fn_out = Some(TRUE)

\* C5: has_video returns False (AUDIO) for every entry in which every
\* format descriptor has the video codec "none" and which has no live flag,
\* no non-zero width and no non-zero height.
C5_AllNoneMeansAudio ==
    ( /\ HasVideoReturned
      /\ fn_in[1].formats # None
      /\ \A k \in 1..Len(fn_in[1].formats[1]) :
            fn_in[1].formats[1][k].vcodec = Some("none")
      /\ ~HasLiveOrSize(fn_in[1]) ) => fn_out = Some(FALSE)

\* has_video returned False on two descriptors with the codec "none", a
\* live flag that is False and a width and height of zero.
C5_Witness ==
    /\ HasVideoReturned
    /\ fn_in[1].formats = Some(<< [ vcodec |-> Some("none") ], [ vcodec |-> Some("none") ] >>)
    /\ fn_in[1].is_live = Some(FALSE)
    /\ fn_in[1].width = Some(0)
    /\ fn_in[1].height = Some(0)
    /\ fn_out = Some(FALSE)

\* C6: without video-codec evidence in the format list (the list missing,
\* empty, or without a codec other than "none"), has_video returns True
\* when the entry is live or has a non-zero width or a non-zero height, and
\* False otherwise: a width and a height of zero with no live flag are no
\* evidence of video.
C6_FallbackSignals ==
    (HasVideoReturned /\ ~HasVideoCodec(fn_in[1])) =>
        fn_out = Some(HasLiveOrSize(fn_in[1]))

\* has_video returned True on an empty format list with only a non-zero
\* height (no live flag, zero width).
C6_Witness ==
    /\ HasVideoReturned
    /\ fn_in[1].formats = Some(<< >>)
    /\ fn_in[1].is_live = None
    /\ fn_in[1].width = Some(0)
    /\ fn_in[1].height = Some(360)
    /\ fn_out = Some(TRUE)

\* The postprocessors of a configuration, as a set.
PostProcessors(o) ==
    IF "postprocessors" \in DOMAIN o
    THEN { o["postprocessors"][k] : k \in 1..Len(o["postprocessors"]) }
    ELSE { }

\* The configuration of a video: best video plus best audio else best, a
\* merge and a conversion to MP4, and no MP3 extraction.
IsVideoConfig(o) ==
    /\ "format" \in DOMAIN o
    /\ o["format"] = "bestvideo+bestaudio/best"
    /\ "merge_output_format" \in DOMAIN o
    /\ o["merge_output_format"] = "mp4"
    /\ \E p \in PostProcessors(o) :
          p.key = "FFmpegVideoConvertor" /\ p.preferedformat = "mp4"
    /\ \A p \in PostProcessors(o) : p.key # "FFmpegExtractAudio"

\* The configuration of an audio: best audio else best, an extraction to
\* MP3 at 192 kbps, and no MP4 directive.
IsAudioConfig(o) ==
    /\ "format" \in DOMAIN o
    /\ o["format"] = "bestaudio/best"
    /\ \E p \in PostProcessors(o) :
          /\ p.key = "FFmpegExtractAudio"
          /\ p.preferredcodec = "mp3"
          /\ p.preferredquality = "192"
    /\ "merge_output_format" \notin DOMAIN o
    /\ \A p \in PostProcessors(o) : p.key # "FFmpegVideoConvertor"

ConfigMatchesKind(video, o) == IF video THEN IsVideoConfig(o) ELSE IsAudioConfig(o)

\* The last step was the download of an entry.
JustDownloaded ==
    pc = "loop" /\ calls # << >> /\ calls[Len(calls)].op = "download"

\* C7: the configuration handed to the downloader is determined by the
\* kind.  The configuration built for an entry, and the one its download
\* was invoked with, is the video configuration when the entry was
\* classified as video and the audio configuration otherwise.
C7_ConfigByKind ==
    /\ pc = "download" => ConfigMatchesKind(is_video[1], opts[1])
    /\ JustDownloaded =>
          /\ calls[Len(calls)].opts = opts[1]
          /\ ConfigMatchesKind(is_video[1], calls[Len(calls)].opts)

\* An entry classified as audio has just been downloaded, with the
\* settings that give every optional key.
C7_Witness ==
    /\ JustDownloaded
    /\ is_video = Some(FALSE)
    /\ req[1].cookiefile # None
    /\ IsAudioConfig(calls[Len(calls)].opts)

BuildBaseOptsReturned == pc = "build_base_opts:return"

\* An optional setting is given when it is neither None nor empty.
GivenStr(o) == o # None /\ o # Some("")

GivenMap(o) == o # None /\ DOMAIN o[1] # { }

\* Key k of the configuration carries the given value v, or is missing when v
\* is not given.
CopiedOrOmitted(o, k, given, v) ==
    IF given THEN k \in DOMAIN o /\ o[k] = v[1] ELSE k \notin DOMAIN o

\* C8: build_base_opts copies the cookie file, the username, the password
\* and the header map unchanged under their keys when they are given, and
\* leaves the key out when they are not (no key with a None or empty
\* value); the output template, the two logging flags and the playlist
\* error tolerance are always set.
C8_AuthCopiedOrOmitted ==
    BuildBaseOptsReturned =>
        LET a == fn_in[1]
            o == fn_out[1]
        IN  /\ CopiedOrOmitted(o, "cookiefile", GivenStr(a.cookiefile), a.cookiefile)
            /\ CopiedOrOmitted(o, "username", GivenStr(a.username), a.username)
            /\ CopiedOrOmitted(o, "password", GivenStr(a.password), a.password)
            /\ CopiedOrOmitted(o, "http_headers", GivenMap(a.headers), a.headers)
            /\ { "outtmpl", "quiet", "no_warnings", "ignoreerrors" } \subseteq DOMAIN o
            /\ o["outtmpl"] = a.outdir \o << "%(title)s - %(id)s.%(ext)s" >>
            /\ o["quiet"] = a.quiet
            /\ o["no_warnings"] = a.quiet
            /\ o["ignoreerrors"] = TRUE
            /\ DOMAIN o \subseteq { "outtmpl", "quiet", "no_warnings", "ignoreerrors",
                                    "cookiefile", "username", "password",
                                    "http_headers" }

\* build_base_opts returned for a cookie file and headers that are given
\* and a username and password that are not: two keys copied, two omitted.
C8_Witness ==
    /\ BuildBaseOptsReturned
    /\ fn_in[1].cookiefile = Some("cookies.txt")
    /\ fn_in[1].headers = Some([ A |-> "1", B |-> "2" ])
    /\ fn_in[1].username = None
    /\ fn_in[1].password = Some("")
    /\ DOMAIN fn_out[1] = { "outtmpl", "quiet", "no_warnings", "ignoreerrors",
                            "cookiefile", "http_headers" }

\* --headers was given, and its text is malformed JSON or JSON that is not
\* an object.
BadHeadersGiven ==
    /\ args # None
    /\ args[1].headers # None
    /\ LET parsed == JsonLoads(args[1].headers[1])
       IN  ~parsed.ok \/ parsed.value.type # "object"

\* The program is in main, before download_entries is called, or has left.
BeforeCore == pc \in { "main", "consent", "auth", "call", "exit" }

\* Nothing of the core has run: no request, no query, no download.
CoreNeverRan == req = None /\ calls = << >> /\ base_opts = None

\* main aborts right after parsing --headers: the program is either still
\* at its first step or has exited with status 1, the consent prompt is
\* never shown, and no metadata query and no download is made.
AbortsAtHeaders ==
    /\ pc \in { "main", "exit" }
    /\ pc = "exit" => exit_status = Some(1)
    /\ pc = "main" => exit_status = None
    /\ stdin = << >>
    /\ CoreNeverRan

\* C9 as stated: with --headers given and malformed JSON or JSON that is
\* not an object, main exits with status 1 before any resolution.
C9_Original == BadHeadersGiven => AbortsAtHeaders

\* C9, amended: with --headers given a non-empty text that is malformed
\* JSON or JSON that is not an object, main exits with status 1 before any
\* resolution: no metadata query and no download is made.  (An empty
\* --headers text is treated as no --headers at all.)
C9_BadHeadersAbort ==
    (BadHeadersGiven /\ args[1].headers # Some("")) => AbortsAtHeaders

\* The run with --headers '[1,2]' and --yes has exited with status 1.
C9_Witness ==
    /\ args # None
    /\ args[1].headers = Some("[1,2]")
    /\ args[1].yes
    /\ pc = "exit"
    /\ exit_status = Some(1)
    /\ calls = << >>

\* The prompt was shown (no --yes) and the answer is not y or yes, leading
\* and trailing blanks and case aside.
ConsentDeclined ==
    /\ args # None
    /\ ~args[1].yes
    /\ stdin # << >>
    /\ stdin[1] \notin { "y", " YES " }

\* --cookies was given and its value is not an existing file.
CookiesMissing ==
    /\ args # None
    /\ args[1].cookies # None
    /\ args[1].cookies[1] \notin ExistingFiles

\* The core never runs (no metadata query, no download), and when the
\* program has exited its status is 1.
AbortsBeforeCore ==
    /\ BeforeCore
    /\ pc # "call"
    /\ CoreNeverRan
    /\ pc = "exit" => exit_status = Some(1)

\* C10 as stated: when the consent prompt is declined, or --cookies names a
\* path that is not an existing file, main exits with status 1 and the core
\* never runs.
C10_Original == (ConsentDeclined \/ CookiesMissing) => AbortsBeforeCore

\* C10, amended: when the consent prompt is declined, or --cookies names a
\* non-empty path that is not an existing file, main exits with status 1
\* and the core never runs: no metadata query and no download is made.  (An
\* empty --cookies value is treated as no --cookies at all.)
C10_DeclinedOrNoCookiesAbort ==
    (ConsentDeclined \/ (CookiesMissing /\ args[1].cookies # Some(""))) =>
        /\ AbortsBeforeCore
        /\ ConsentDeclined => pc = "exit"

\* The run with valid settings, consent given and a missing cookie file
\* has exited with status 1.
C10_Witness ==
    /\ CookiesMissing
    /\ args[1].cookies = Some("missing.txt")
    /\ ~BadHeadersGiven
    /\ ~ConsentDeclined
    /\ ~args[1].yes
    /\ stdin # << >>
    /\ pc = "exit"
    /\ exit_status = Some(1)
    /\ calls = << >>

\* The run whose consent prompt was answered "n" has exited with status 1.
C10_WitnessDeclined ==
    /\ ConsentDeclined
    /\ stdin = << "n" >>
    /\ pc = "exit"
    /\ exit_status = Some(1)
    /\ calls = << >>

\* The string Python's str() gives for a JSON member value: a string is
\* itself, a number its decimal numeral, true is True and null is None.
StringForm(v) ==
    CASE v = JsonString("1")  -> "1"
      [] v = JsonString("")   -> ""
      [] v = JsonNumber(2)    -> "2"
      [] v = JsonBool(TRUE)   -> "True"
      [] v = JsonNull         -> "None"

ParseHeadersReturned == pc = "parse_headers:return"

\* C11: parse_headers, given the text of a JSON object, returns a map with
\* the same keys in which every value is a string: a string value is kept
\* and a value that is not a string becomes its string form; in particular
\* {"A":"1","B":2} gives {"A":"1","B":"2"}; and nothing is printed.
C11_HeaderValuesCoerced ==
    ParseHeadersReturned =>
        /\ \A members \in JsonObjects :
              fn_in[1] = Some(JsonObjectText(members)) =>
                 /\ fn_out[1] # None
                 /\ DOMAIN fn_out[1][1] = DOMAIN members
                 /\ \A k \in DOMAIN members :
                       fn_out[1][1][k] = StringForm(members[k])
                 /\ out = << >>
        /\ fn_in[1] = Some("{\"A\":\"1\",\"B\":2}") =>
              fn_out[1] = Some([ A |-> "1", B |-> "2" ])

\* parse_headers returned {"A":"1","B":"2"} on the text {"A":"1","B":2}.
C11_Witness ==
    /\ ParseHeadersReturned
    /\ fn_in[1] = Some("{\"A\":\"1\",\"B\":2}")
    /\ fn_out[1] = Some([ A |-> "1", B |-> "2" ])

\* The elements of a sequence.
Elems(s) == { s[k] : k \in 1..Len(s) }

\* A call made for an entry raised, or, for a detail query, returned None:
\* the errors the loop catches.
IsCaughtError(c) ==
    /\ c.at > 0
    /\ \/ c.outcome.exc # None
       \/ c.op = "extract_info" /\ c.outcome.val = None

\* The message of the exception caught after call c.
OriginalMessage(c) ==
    IF c.outcome.exc # None THEN c.outcome.exc[1] ELSE NoneTypeError

\* The text of the stderr line that reports a failure of call c.
ReportTextOf(c) ==
    IF c.op = "download" THEN "Erro durante o download/processing"
    ELSE "Erro ao analisar formats do item"

\* C12: every per-entry error that is caught (a detail query or a download
\* that failed) is reported on stderr by a line that carries both the title
\* of the entry it belongs to and the original error message.
C12_ErrorsReportedWithTitle ==
    \A j \in 1..Len(calls) :
        IsCaughtError(calls[j]) =>
            \E l \in 1..Len(out) :
                /\ out[l].chan = "stderr"
                /\ out[l].text = ReportTextOf(calls[j])
                /\ out[l].at = calls[j].at
                /\ OriginalMessage(calls[j]) \in Elems(out[l].args)
                /\ TitleOf(entries[calls[j].at]) \in Elems(out[l].args)

\* The detail query c failed: it raised or returned None.
FailedDetail(c) == c.op = "extract_info" /\ IsCaughtError(c)

\* The download invocations made for the entry of iteration k.
DownloadsAt(k) == { j \in 1..Len(calls) : calls[j].op = "download" /\ calls[j].at = k }

\* The lines that tell the kind detected for the entry of iteration k.
KindLinesAt(k) ==
    { out[l].text : l \in { n \in 1..Len(out) :
                              /\ out[n].at = k
                              /\ out[n].text \in { " -> Tipo detectado: VIDEO",
                                                    " -> Tipo detectado: AUDIO" } } }

\* C13: a detail query that fails (raises, or returns nothing) makes the
\* entry a VIDEO.  The cause is logged on stderr, the entry is not skipped:
\* it is classified as video, configured with the video configuration and,
\* once the loop has moved past it, was downloaded with that configuration
\* and with its own URL.
C13_RefreshFailureMeansVideo ==
    \A j \in 1..Len(calls) :
        FailedDetail(calls[j]) =>
            LET k == calls[j].at
            IN  /\ \E l \in 1..Len(out) :
                      /\ out[l].chan = "stderr"
                      /\ out[l].text = "Erro ao analisar formats do item"
                      /\ out[l].at = k
                      /\ out[l].args = << OriginalMessage(calls[j]) >>
                /\ (i = k /\ pc = "configure") => is_video = Some(TRUE)
                /\ (i = k /\ pc = "download") =>
                      /\ IsVideoConfig(opts[1])
                      /\ KindLinesAt(k) = { " -> Tipo detectado: VIDEO" }
                /\ i > k =>
                      /\ KindLinesAt(k) = { " -> Tipo detectado: VIDEO" }
                      /\ DownloadsAt(k) # { }
                      /\ \A d \in DownloadsAt(k) :
                            /\ IsVideoConfig(calls[d].opts)
                            /\ calls[d].target = << SourceUrlOf(entries[k]) >>

\* The run has ended after a detail query that returned nothing, and the
\* entry was downloaded as a video.
C13_Witness ==
    /\ Finished
    /\ \E j \in 1..Len(calls) :
          /\ FailedDetail(calls[j])
          /\ calls[j].outcome.exc = None
          /\ \E d \in DownloadsAt(calls[j].at) : IsVideoConfig(calls[d].opts)

\* C14: each download invocation is passed a list of exactly one element,
\* and this element is a source URL the entry carries (its webpage URL or
\* its media URL), never an absent value, also for an entry that carries
\* only an identifier.
C14_DownloadTargetIsEntryUrl ==
    \A j \in 1..Len(calls) :
        calls[j].op = "download" =>
            LET e == entries[calls[j].at]
            IN  /\ Len(calls[j].target) = 1
                /\ calls[j].target[1] # None
                /\ calls[j].target[1] \in { e.webpage_url, e.url }

\* The loop has passed the classification of the entry of iteration k.
Classified(k) == i > k \/ (i = k /\ pc \in { "configure", "download" })

\* The detail queries made for the entry of iteration k.
DetailsAt(k) ==
    { j \in 1..Len(calls) : calls[j].op = "extract_info" /\ calls[j].at = k }

\* A detail query is made for an entry exactly when it has no formats or an
\* empty list of them.
DetailQueriedWhenNoFormats ==
    /\ \A k \in 1..Len(entries) :
          Classified(k) => (DetailsAt(k) # { } <=> ~TruthySeq(entries[k].formats))
    /\ \A j \in 1..Len(calls) :
          (calls[j].op = "extract_info" /\ calls[j].at > 0) =>
              ~TruthySeq(entries[calls[j].at].formats)

\* C15 as the specification has it: a detail query is made exactly when the
\* format list is empty or absent, and is addressed to the webpage URL of
\* the entry when it has one and to its bare identifier otherwise.
C15_Original ==
    /\ DetailQueriedWhenNoFormats
    /\ \A j \in 1..Len(calls) :
          (calls[j].op = "extract_info" /\ calls[j].at > 0) =>
              LET e == entries[calls[j].at]
              IN  calls[j].target = IF TruthyStr(e.webpage_url) THEN e.webpage_url
                                    ELSE e.id

\* C15: a detail query is made for an entry exactly when its format list is
\* empty or absent, never for an entry with a non-empty format list; it is
\* addressed to the webpage URL of the entry when it has one, else to its
\* media URL when it has one, and to its bare identifier otherwise.
C15_DetailQuery ==
    /\ DetailQueriedWhenNoFormats
    /\ \A j \in 1..Len(calls) :
          (calls[j].op = "extract_info" /\ calls[j].at > 0) =>
              LET e == entries[calls[j].at]
              IN  calls[j].target = IF TruthyStr(e.webpage_url) THEN e.webpage_url
                                    ELSE IF TruthyStr(e.url) THEN e.url
                                    ELSE e.id

\* An entry with a media URL, an identifier, no webpage URL and no formats
\* was queried by its media URL, and an entry with an identifier only by
\* its identifier.
C15_Witness ==
    /\ \E j \in 1..Len(calls) :
          /\ calls[j].op = "extract_info"
          /\ calls[j].at > 0
          /\ entries[calls[j].at] = EntryLink
          /\ calls[j].target = EntryLink.url
    /\ \E j \in 1..Len(calls) :
          /\ calls[j].op = "extract_info"
          /\ calls[j].at > 0
          /\ entries[calls[j].at] = EntryBare
          /\ calls[j].target = EntryBare.id

\* The detail query c returned a detailed object.
ReturnedDetail(c) ==
    c.op = "extract_info" /\ c.at > 0 /\ c.outcome.exc = None /\ c.outcome.val # None

\* C16: the detailed metadata is used for the classification only.  After a
\* detail query that returned a detailed object, the kind detected is the
\* one of the detailed object, while the title announced and the URL handed
\* to the download are the ones of the original entry, whatever title and
\* URLs the detailed object has.
C16_DetailForClassificationOnly ==
    \A j \in 1..Len(calls) :
        ReturnedDetail(calls[j]) =>
            LET k == calls[j].at
                d == calls[j].outcome.val[1]
            IN  /\ \E l \in 1..Len(out) :
                      /\ out[l].text = "Processando"
                      /\ out[l].at = k
                      /\ out[l].args = << TitleOf(entries[k]) >>
                /\ \A l \in 1..Len(out) :
                      (out[l].at = k /\ d.title # None /\ d.title[1] # TitleOf(entries[k]))
                          => d.title[1] \notin Elems(out[l].args)
                /\ (i = k /\ pc \in { "configure", "download" }) =>
                      /\ is_video = Some(has_video(d))
                      /\ entry_url = SourceUrlOf(entries[k])
                      /\ title = Some(TitleOf(entries[k]))
                /\ i > k =>
                      /\ KindLinesAt(k) = { IF has_video(d)
                                            THEN " -> Tipo detectado: VIDEO"
                                            ELSE " -> Tipo detectado: AUDIO" }
                      /\ DownloadsAt(k) # { }
                /\ \A n \in DownloadsAt(k) :
                      calls[n].target = << SourceUrlOf(entries[k]) >>

\* An entry with its own URLs and title and an empty format list was
\* refreshed, the detailed object had another URL and another title, and
\* the download was invoked with the URL of the entry.
C16_Witness ==
    /\ Finished
    /\ \E j \in 1..Len(calls) :
          /\ ReturnedDetail(calls[j])
          /\ LET k == calls[j].at
                 d == calls[j].outcome.val[1]
             IN  /\ entries[k].webpage_url # None
                 /\ d.webpage_url # entries[k].webpage_url
                 /\ d.title # entries[k].title
                 /\ \E n \in DownloadsAt(k) :
                       /\ calls[n].target = << entries[k].webpage_url >>
                       /\ calls[n].target # << d.webpage_url >>

\* The lines that tell how the download of the entry of iteration k ended.
OutcomeLinesAt(k) ==
    { l \in 1..Len(out) :
        /\ out[l].at = k
        /\ out[l].text \in { " --> Concluido.", "Erro durante o download/processing" } }

\* Every entry the loop has passed was downloaded once, refreshed at most
\* once and ended either completed (its download returned) or failed (its
\* download raised); no entry has more than one download or detail query.
EveryEntryAttemptedOnce ==
    \A k \in 1..Len(entries) :
        /\ Cardinality(DownloadsAt(k)) <= 1
        /\ Cardinality(DetailsAt(k)) <= 1
        /\ Cardinality(OutcomeLinesAt(k)) <= 1
        /\ Cardinality(OutcomeLinesAt(k)) = Cardinality(DownloadsAt(k))
        /\ \A d \in DownloadsAt(k) : \A l \in OutcomeLinesAt(k) :
              out[l].text = IF calls[d].outcome.exc # None
                            THEN "Erro durante o download/processing"
                            ELSE " --> Concluido."
        /\ i > k => Cardinality(DownloadsAt(k)) = 1
        /\ Finished => i > k

\* The top-level resolution has succeeded: the loop has begun or is over.
Resolved == initial_info # None /\ pc # "resolve"

\* The run is over and the last entry was downloaded.
EndedAfterLastEntry ==
    /\ Finished
    /\ i = Len(entries) + 1
    /\ Len(DownloadCalls) = Len(entries)

\* C17: no retry and every entry attempted.  In a run whose top-level
\* resolution succeeds every entry has its download invoked exactly once
\* and its detail query made at most once, each entry ends either
\* completed or failed according to whether its download returned or
\* raised, and the run ends after the last entry whichever calls fail.
C17_NoRetryEveryEntryAttempted ==
    /\ [](Resolved => EveryEntryAttemptedOnce)
    /\ Resolved ~> EndedAfterLastEntry

\* A run of two entries is over: the first was refreshed and its download
\* raised, the download of the second returned.
C17_Witness ==
    /\ EndedAfterLastEntry
    /\ Len(entries) = 2
    /\ Cardinality(DetailsAt(1)) = 1
    /\ \A d \in DownloadsAt(1) : calls[d].outcome.exc # None
    /\ \A d \in DownloadsAt(2) : calls[d].outcome.exc = None
    /\ Cardinality(OutcomeLinesAt(1)) = 1
    /\ Cardinality(OutcomeLinesAt(2)) = 1

\* The input of the request is a URL, which the top-level query resolves.
UrlInput == req # None /\ req[1].info_or_url.type = "str"

\* C18: the entries are processed strictly one at a time, in resolution
\* order.  The calls and the lines of an entry come after all those of the
\* entries before it, the k-th download is the one of the k-th entry, the
\* processing of an entry never starts before the download of every entry
\* before it has returned or raised, and the top-level query is over (it
\* is the first call, and the only one outside the loop) before any entry
\* is processed.
C18_StrictlySequential ==
    /\ \A a, b \in 1..Len(calls) :
          a < b => /\ calls[a].at <= calls[b].at
                   /\ calls[a].at = calls[b].at =>
                         calls[a].op = "extract_info" /\ calls[b].op = "download"
    /\ \A a, b \in 1..Len(out) : a < b => out[a].at <= out[b].at
    /\ \A k \in 1..Len(DownloadCalls) : DownloadCalls[k].at = k
    /\ pc \in { "classify", "configure", "download" } =>
          /\ i \in 1..Len(entries)
          /\ \A k \in 1..(i - 1) :
                Cardinality(DownloadsAt(k)) = 1 /\ Cardinality(OutcomeLinesAt(k)) = 1
          /\ \A k \in i..Len(entries) : DownloadsAt(k) = { }
          /\ \A k \in (i + 1)..Len(entries) :
                DetailsAt(k) = { } /\ \A l \in 1..Len(out) : out[l].at # k
    /\ pc = "resolve" => calls = << >> /\ entries = << >> /\ out = << >>
    /\ (\E j \in 1..Len(calls) : calls[j].at > 0) \/ (\E l \in 1..Len(out) : out[l].at > 0)
          => /\ initial_info # None
             /\ UrlInput => /\ calls[1].op = "extract_info"
                            /\ calls[1].at = 0
                            /\ calls[1].outcome.exc = None
                            /\ calls[1].outcome.val = initial_info
             /\ \A j \in 2..Len(calls) : calls[j].at > 0
             /\ ~UrlInput => \A j \in 1..Len(calls) : calls[j].at > 0

\* A URL was resolved to two entries; the first was refreshed and
\* downloaded, and the second is being refreshed.
C18_Witness ==
    /\ UrlInput
    /\ Len(entries) = 2
    /\ pc = "configure"
    /\ i = 2
    /\ Len(calls) = 4
    /\ calls[1].at = 0
    /\ calls[2].op = "extract_info" /\ calls[2].at = 1
    /\ calls[3].op = "download" /\ calls[3].at = 1
    /\ calls[4].op = "extract_info" /\ calls[4].at = 2

\* The kind detected for the entry of iteration k is video.
VideoAt(k) == " -> Tipo detectado: VIDEO" \in KindLinesAt(k)

\* The configurations of the downloads depend on the settings of the
\* request and on the kind only: equal for two entries of the same kind,
\* and with no directive of the other kind.
ConfigsDependOnKindOnly ==
    \A a \in 1..Len(calls) :
        calls[a].op = "download" =>
            /\ calls[a].opts = EntryOpts(req[1], VideoAt(calls[a].at))
            /\ ConfigMatchesKind(VideoAt(calls[a].at), calls[a].opts)
            /\ \A b \in 1..Len(calls) :
                  (calls[b].op = "download" /\ VideoAt(calls[b].at) = VideoAt(calls[a].at))
                      => calls[b].opts = calls[a].opts

\* C19: the configuration of each entry is built afresh and depends only on
\* the settings of the request and on the kind of the entry.  Two entries
\* of the same kind get equal configurations whatever happened to earlier
\* entries, no directive of one entry is in the configuration of a later
\* entry of the other kind, and no step of download_entries changes the
\* settings of the request or the base options built from them.
C19_ConfigBuiltFresh ==
    /\ []ConfigsDependOnKindOnly
    /\ [][req' = req /\ (base_opts # None => base_opts' = base_opts)]_vars

\* With every optional setting given, a video whose download raised was
\* followed by an audio, downloaded with the audio configuration built on
\* the same settings.
C19_Witness ==
    /\ Finished
    /\ req[1].headers # None
    /\ Len(DownloadCalls) = 2
    /\ VideoAt(1) /\ ~VideoAt(2)
    /\ DownloadCalls[1].outcome.exc # None
    /\ IsVideoConfig(DownloadCalls[1].opts)
    /\ IsAudioConfig(DownloadCalls[2].opts)
    /\ DownloadCalls[2].opts = EntryOpts(req[1], FALSE)

\* The checks of main before the core have passed: the core was called.
CoreCalled == req # None

\* C20: once the checks before the core have passed, the exit status does
\* not depend on what happens to the entries: the process ends with status
\* 0 whether the resolution failed, every download raised, some did or
\* every entry completed.
C20_ExitStatusIgnoresOutcomes ==
    (pc = "exit" /\ CoreCalled) => exit_status = Some(0)

\* The process has ended with status 0 after a run in which every entry
\* was downloaded and every download raised.
C20_Witness ==
    /\ pc = "exit"
    /\ CoreCalled
    /\ exit_status = Some(0)
    /\ Len(entries) = 2
    /\ Len(DownloadCalls) = 2
    /\ RaisedDownloads = { 1, 2 }

=============================================================================
